---- MODULE Spec2Model ----
(***************************************************************************)
(* Social identity verification and account linking of the trackwise      *)
(* backend: SocialAuthService (token verification, create_or_update of    *)
(* the user row, session issuance), the social_login endpoint, and the    *)
(* UserService operations that share the users table.                     *)
(*                                                                         *)
(* Strings are sequences of atoms (one-character strings, plus the fixed   *)
(* literals "google", "apple", ".local", "_" and domain names), so that    *)
(* concatenation, prefixing and splitting are computed as the code does.   *)
(* Every await of the code is one step of a request; the database is READ  *)
(* COMMITTED: a SELECT reads the committed table, a commit applies the     *)
(* pending INSERT/UPDATE and checks the unique indexes.                    *)
(***************************************************************************)
EXTENDS Integers, Sequences, FiniteSets, TLC

(* -------------------------------- bounds ------------------------------ *)
\* requests issued in one behaviour
MaxRequests == 3
\* requests in flight at the same time
MaxConcurrent == 2

(* ------------------------------ constants ----------------------------- *)
\* provider_id[:8]
UsernameIdPrefix == 8
\* min_length of UserBase.username
UsernameMinLength == 3

\* Python None / SQL NULL: a value no string of the model equals
NULL == <<"NULL">>

Providers == {"google", "apple"}
\* a request schema whose provider field has no pattern
ProviderPatternAny == {"google", "apple", "facebook"}

\* SocialLoginRequest.provider pattern ^(google|apple)$
ProviderPattern == {"google", "apple"}

GoogleIssuers == {<<"accounts.google.com">>, <<"https://accounts.google.com">>}
AppleIssuer == <<"https://appleid.apple.com">>
\* settings.GOOGLE_CLIENT_ID
GoogleClientId == <<"gcid">>
\* a configured settings.APPLE_CLIENT_ID
AppleCid == <<"acid">>

(* ------------------------------- strings ------------------------------ *)
\* Python truthiness of an optional string: None and "" are falsy
Truthy(s) == s # NULL /\ s # <<>>

\* s[:n]
Take(s, n) == IF Len(s) <= n THEN s ELSE SubSeq(s, 1, n)

Digit(d) == CASE d = 0 -> "0" [] d = 1 -> "1" [] d = 2 -> "2" [] d = 3 -> "3"
              [] d = 4 -> "4" [] d = 5 -> "5" [] d = 6 -> "6" [] d = 7 -> "7"
              [] d = 8 -> "8" [] d = 9 -> "9"

\* str(n) of a non-negative integer, as in f"{base_username}{counter}"
RECURSIVE Str(_)
Str(n) == IF n < 10 THEN <<Digit(n)>> ELSE Str(n \div 10) \o <<Digit(n % 10)>>

\* index of the first "@" of s, 0 when there is none
RECURSIVE FirstAt(_, _)
FirstAt(s, i) == IF i > Len(s) THEN 0
                 ELSE IF s[i] = "@" THEN i ELSE FirstAt(s, i + 1)

\* email.split('@')[0]
LocalPart(e) == IF FirstAt(e, 1) = 0 THEN e ELSE SubSeq(e, 1, FirstAt(e, 1) - 1)

\* f"{provider_id}@{provider}.local"
SynthEmail(provider, pid) == pid \o <<"@", provider, ".local">>

\* f"{provider}_{provider_id[:8]}"
SynthUsername(provider, pid) == <<provider, "_">> \o Take(pid, UsernameIdPrefix)

\* username = email.split('@')[0] if email else f"{provider}_{provider_id[:8]}"
BaseUsername(provider, pid, email) ==
    IF Truthy(email) THEN LocalPart(email) ELSE SynthUsername(provider, pid)

(* ---------------------------- identity tokens ------------------------- *)
\* A raw identity token: header (kid), the key material that signed it,
\* and its claims; an absent claim is NULL.
GoodG == [fmt |-> TRUE, kid |-> <<"gk">>, sig |-> "gkey", exp_ok |-> TRUE,
          iss |-> <<"accounts.google.com">>, aud |-> GoogleClientId,
          sub |-> <<"1">>, email |-> <<"b", "o", "b", "@", "x.com">>,
          email_verified |-> TRUE,
          name |-> <<"Bob">>, picture |-> <<"pic">>, nonce |-> NULL]

GoodA == [fmt |-> TRUE, kid |-> <<"ak1">>, sig |-> "akey1", exp_ok |-> TRUE,
          iss |-> AppleIssuer, aud |-> AppleCid,
          sub |-> <<"1">>, email |-> NULL, email_verified |-> FALSE,
          name |-> NULL, picture |-> NULL, nonce |-> NULL]

\* the key Google signs with, and Apple's published key set
GoogleKey == "gkey"
AppleKeys == {[kid |-> <<"ak1">>, mat |-> "akey1"]}

\* what the GET of https://appleid.apple.com/auth/keys can come back with: no
\* response at all, or a response of some status whose body may hold a 'keys'
\* list (the status is never looked at: there is no raise_for_status())
JwksResponses == {[kind |-> "ok", has_keys |-> TRUE, keys |-> AppleKeys],
                  [kind |-> "network_error", has_keys |-> FALSE, keys |-> {}],
                  [kind |-> "non_success", has_keys |-> FALSE, keys |-> {}],
                  [kind |-> "non_success", has_keys |-> TRUE, keys |-> AppleKeys]}

\* the provider_data dictionary of a verified token; ok = FALSE is the None result
NoIdent == [ok |-> FALSE, provider_id |-> NULL, email |-> NULL, email_verified |-> FALSE,
            full_name |-> NULL, profile_picture |-> NULL]

\* google.oauth2.id_token.verify_oauth2_token(token, request, audience): the
\* claims are returned only for a well-formed, unexpired token signed by Google
\* for this audience by a Google issuer; certs_ok is the fetch of Google's certs
VerifyOauth2Token(tok, audience, certs_ok) ==
    /\ certs_ok
    /\ tok.fmt
    /\ tok.sig = GoogleKey
    /\ tok.exp_ok
    /\ tok.aud = audience
    /\ tok.iss \in GoogleIssuers

\* SocialAuthService.verify_google_token
verify_google_token(tok, certs_ok) ==
    IF ~VerifyOauth2Token(tok, GoogleClientId, certs_ok) THEN NoIdent
    ELSE IF tok.iss \notin GoogleIssuers THEN NoIdent
    ELSE IF tok.sub = NULL THEN NoIdent          \* idinfo['sub'] raises KeyError
    ELSE [ok |-> TRUE, provider_id |-> tok.sub, email |-> tok.email,
          email_verified |-> tok.email_verified,
          full_name |-> tok.name, profile_picture |-> tok.picture]

\* hashlib.sha256(nonce).hexdigest(), an injective function of the nonce
Sha256Hex(nonce) == <<"sha256">> \o nonce

\* the nonce comparison of verify_apple_token: TRUE when the mismatch is logged
NonceMismatch(tok, nonce) ==
    /\ Truthy(nonce)
    /\ Truthy(tok.nonce)
    /\ tok.nonce # Sha256Hex(nonce)

\* the JWKS entries whose kid equals the token header's kid
MatchingKeys(tok, keys) == {k \in keys : k.kid = tok.kid}

\* a decode that never looks at the audience
JoseDecodeOkNoAudience(tok, key, client_id) ==
    /\ tok.sig = key.mat
    /\ tok.exp_ok

\* jose_jwt.decode(id_token, public_key, algorithms=[alg], audience=..., options=...)
JoseDecodeOk(tok, key, client_id) ==
    /\ tok.sig = key.mat
    /\ tok.exp_ok
    /\ (Truthy(client_id) => tok.aud = client_id)

\* the first matching key of the loop over apple_keys
AppleKey(tok, resp) == CHOOSE k \in MatchingKeys(tok, resp.keys) : TRUE

\* a verifier that hands the token to jose_jwt.decode without a matching key
AppleRaisedNoKeyCheck(tok, nonce, resp, client_id) ==
    IF resp.kind = "network_error" THEN "ConnectError"
    ELSE IF ~resp.has_keys THEN "KeyError"
    ELSE IF ~tok.fmt THEN "DecodeError"
    ELSE IF MatchingKeys(tok, resp.keys) = {} THEN "JWTError"
    ELSE IF ~JoseDecodeOk(tok, AppleKey(tok, resp), client_id) THEN "JWTError"
    ELSE IF tok.iss # AppleIssuer THEN "ValueError"
    ELSE "none"

\* a verifier that does not look at the issuer of the decoded claims
AppleRaisedAnyIssuer(tok, nonce, resp, client_id) ==
    IF resp.kind = "network_error" THEN "ConnectError"
    ELSE IF ~resp.has_keys THEN "KeyError"
    ELSE IF ~tok.fmt THEN "DecodeError"
    ELSE IF MatchingKeys(tok, resp.keys) = {} THEN "ValueError"
    ELSE IF ~JoseDecodeOk(tok, AppleKey(tok, resp), client_id) THEN "JWTError"
    ELSE "none"

\* the exception that ends the try block of verify_apple_token, "none" when
\* the block reaches its return statement
AppleRaised(tok, nonce, resp, client_id) ==
    IF resp.kind = "network_error" THEN "ConnectError"        \* client.get raises
    ELSE IF ~resp.has_keys THEN "KeyError"                     \* response.json()['keys']
    ELSE IF ~tok.fmt THEN "DecodeError"                        \* jwt.get_unverified_header
    ELSE IF MatchingKeys(tok, resp.keys) = {} THEN "ValueError"
    ELSE IF ~JoseDecodeOk(tok, AppleKey(tok, resp), client_id) THEN "JWTError"
    ELSE IF tok.iss # AppleIssuer THEN "ValueError"
    ELSE "none"

\* jose_jwt.decode is reached: the keys came back, the header parsed, a key matched
SignatureChecked(tok, resp) ==
    /\ resp.kind # "network_error"
    /\ resp.has_keys
    /\ tok.fmt
    /\ MatchingKeys(tok, resp.keys) # {}

\* a verifier that refuses a token whose nonce claim is not the hash of the
\* caller's nonce
verify_apple_token_strict_nonce(tok, nonce, resp, client_id) ==
    IF AppleRaised(tok, nonce, resp, client_id) # "none" THEN NoIdent
    ELSE IF NonceMismatch(tok, nonce) THEN NoIdent
    ELSE [ok |-> TRUE, provider_id |-> tok.sub, email |-> tok.email,
          email_verified |-> tok.email_verified,
          full_name |-> NULL, profile_picture |-> NULL]

\* SocialAuthService.verify_apple_token: both except clauses return None
verify_apple_token(tok, nonce, resp, client_id) ==
    IF AppleRaised(tok, nonce, resp, client_id) # "none" THEN NoIdent
    ELSE [ok |-> TRUE, provider_id |-> tok.sub, email |-> tok.email,
          email_verified |-> tok.email_verified,
          full_name |-> NULL, profile_picture |-> NULL]

(* ------------------------------ users table --------------------------- *)
\* a row of the users table (models/user.py and the social-auth migration)
NewRow(id, email, username, hashed_password, full_name, profile_picture, provider, provider_id, email_verified, ts) ==
    [id |-> id, email |-> email, username |-> username,
     hashed_password |-> hashed_password, full_name |-> full_name,
     profile_picture |-> profile_picture,
     google_id |-> IF provider = "google" THEN provider_id ELSE NULL,
     apple_id |-> IF provider = "apple" THEN provider_id ELSE NULL,
     auth_provider |-> IF provider \in Providers THEN <<provider>> ELSE NULL,
     email_verified |-> email_verified,
     is_active |-> TRUE, is_superuser |-> FALSE,
     created_at |-> ts, updated_at |-> ts]

\* provider_field = f"{provider}_id"
ProviderField(provider) == IF provider = "google" THEN "google_id" ELSE "apple_id"

\* a users table whose username column is not unique
UniqueColumnsNoUsername == {"email", "google_id", "apple_id"}

\* unique=True on email and username; the unique indexes ix_users_google_id and
\* ix_users_apple_id (a NULL never conflicts)
UniqueColumns == {"email", "username", "google_id", "apple_id"}

UniqueOk(row, table) ==
    \A u \in table : u.id # row.id =>
        \A c \in UniqueColumns : row[c] # NULL => u[c] # row[c]

\* select(User).where(column == value): the committed rows that match
SelectWhere(table, column, value) == {u \in table : u[column] = value}

\* the UPDATE of a flush: only the columns whose value changed are written
ApplyChanges(row, changes) ==
    [c \in DOMAIN row |-> IF c \in DOMAIN changes THEN changes[c] ELSE row[c]]

\* a found path that takes the display name from the identity whenever the
\* identity has one
FoundChangesOverwrites(user, provider, ident, link, ts) ==
    LET want == [profile_picture |->
                    IF Truthy(ident.profile_picture) /\ ~Truthy(user.profile_picture)
                    THEN ident.profile_picture ELSE user.profile_picture,
                 full_name |->
                    IF Truthy(ident.full_name)
                    THEN ident.full_name ELSE user.full_name,
                 email_verified |->
                    IF ident.email_verified THEN TRUE ELSE user.email_verified,
                 google_id |->
                    IF link /\ provider = "google" THEN ident.provider_id ELSE user.google_id,
                 apple_id |->
                    IF link /\ provider = "apple" THEN ident.provider_id ELSE user.apple_id,
                 auth_provider |->
                    IF link THEN <<provider>> ELSE user.auth_provider,
                 updated_at |-> ts]
        cols == {c \in DOMAIN want : want[c] # user[c]}
    IN [c \in cols |-> want[c]]

\* a found path that does not set updated_at
FoundChangesNoTouch(user, provider, ident, link, ts) ==
    LET want == [profile_picture |->
                    IF Truthy(ident.profile_picture) /\ ~Truthy(user.profile_picture)
                    THEN ident.profile_picture ELSE user.profile_picture,
                 full_name |->
                    IF Truthy(ident.full_name) /\ ~Truthy(user.full_name)
                    THEN ident.full_name ELSE user.full_name,
                 email_verified |->
                    IF ident.email_verified THEN TRUE ELSE user.email_verified,
                 google_id |->
                    IF link /\ provider = "google" THEN ident.provider_id ELSE user.google_id,
                 apple_id |->
                    IF link /\ provider = "apple" THEN ident.provider_id ELSE user.apple_id,
                 auth_provider |->
                    IF link THEN <<provider>> ELSE user.auth_provider]
        cols == {c \in DOMAIN want : want[c] # user[c]}
    IN [c \in cols |-> want[c]]

\* a link that turns the account into a social-only one by clearing its password
FoundChangesClearsPassword(user, provider, ident, link, ts) ==
    LET base == FoundChangesNoTouch(user, provider, ident, link, ts)
        cols == DOMAIN base \cup {"updated_at"}
                   \cup (IF link /\ user.hashed_password # NULL
                         THEN {"hashed_password"} ELSE {})
    IN [c \in cols |-> IF c = "updated_at" THEN ts
                       ELSE IF c = "hashed_password" THEN NULL
                       ELSE base[c]]

\* the attribute assignments of create_or_update_social_user on a row it found,
\* as the set of columns whose value differs from the loaded one; link = TRUE
\* on the match-by-email path
FoundChanges(user, provider, ident, link, ts) ==
    LET want == [profile_picture |->
                    IF Truthy(ident.profile_picture) /\ ~Truthy(user.profile_picture)
                    THEN ident.profile_picture ELSE user.profile_picture,
                 full_name |->
                    IF Truthy(ident.full_name) /\ ~Truthy(user.full_name)
                    THEN ident.full_name ELSE user.full_name,
                 email_verified |->
                    IF ident.email_verified THEN TRUE ELSE user.email_verified,
                 google_id |->
                    IF link /\ provider = "google" THEN ident.provider_id ELSE user.google_id,
                 apple_id |->
                    IF link /\ provider = "apple" THEN ident.provider_id ELSE user.apple_id,
                 auth_provider |->
                    IF link THEN <<provider>> ELSE user.auth_provider,
                 updated_at |-> ts]
        cols == {c \in DOMAIN want : want[c] # user[c]}
    IN [c \in cols |-> want[c]]

(* -------------------------------- inputs ------------------------------ *)
EmailBX == <<"b", "o", "b", "@", "x.com">>
EmailBY == <<"b", "o", "b", "@", "y.com">>

\* the requests POSTed to /auth/social/login
SocialInputs ==
    { [provider |-> "google", tok |-> GoodG, nonce |-> NULL],
      [provider |-> "apple", tok |-> GoodA, nonce |-> NULL],
      \* a second Google account, unverified, whose email has the same local part
      [provider |-> "google",
       tok |-> [GoodG EXCEPT !.sub = <<"2">>, !.email = EmailBY, !.email_verified = FALSE,
                             !.name = NULL, !.picture = NULL],
       nonce |-> NULL],
      \* a forged signature, a key Apple does not publish, a foreign issuer
      [provider |-> "google", tok |-> [GoodG EXCEPT !.sig = "evil"], nonce |-> NULL],
      [provider |-> "apple", tok |-> [GoodA EXCEPT !.kid = <<"ak9">>], nonce |-> NULL],
      [provider |-> "apple", tok |-> [GoodA EXCEPT !.iss = <<"https://evil.example">>],
       nonce |-> NULL],
      \* an expired token, a token issued to another client, a string that is no JWT
      [provider |-> "google", tok |-> [GoodG EXCEPT !.exp_ok = FALSE], nonce |-> NULL],
      [provider |-> "google", tok |-> [GoodG EXCEPT !.aud = <<"other-client">>],
       nonce |-> NULL],
      [provider |-> "apple", tok |-> [GoodA EXCEPT !.fmt = FALSE], nonce |-> NULL],
      \* a provider tag the request schema does not know
      [provider |-> "facebook", tok |-> GoodG, nonce |-> NULL] }

\* the bodies POSTed to /auth/register
RegisterInputs ==
    { [email |-> EmailBX, username |-> <<"b", "o", "b">>, password |-> <<"Passw0rd!">>, full_name |-> NULL],
      [email |-> EmailBY, username |-> <<"b", "o", "b">>, password |-> <<"Passw0rd!">>, full_name |-> NULL] }

\* the UserUpdate bodies of PATCH /users/{user_id}: only the fields that are set
UpdateInputs ==
    { [email |-> EmailBY], [username |-> <<"b", "o", "b", "1">>] }

(* -------------------------------- state ------------------------------- *)
VARIABLES
    users,          \* the committed rows of the users table
    nextId,         \* the next value of the users.id sequence
    now,            \* the clock: every reading of it is later than the last
    appleClientId,  \* settings.APPLE_CLIENT_ID, NULL when not configured
    creds,          \* the session credentials issued so far
    req             \* the requests: what each one is at and its local variables

vars == <<users, nextId, now, appleClientId, creds, req>>

Slots == 1 .. MaxRequests

NoRow == <<>>
NoChanges == <<>>

IdleReq == [kind |-> "none", pc |-> "idle", inp |-> <<>>, pre |-> {},
            ident |-> NoIdent, verifier_calls |-> 0, db_ops |-> 0,
            uid |-> 0, via |-> "", changes |-> NoChanges,
            base |-> NULL, username |-> NULL, counter |-> 0,
            committed |-> FALSE, user |-> NoRow,
            status |-> 0, error |-> "", credential |-> NULL, is_new_user |-> FALSE]

Done(r) == req[r].pc = "done"
InFlight(r) == req[r].pc \notin {"idle", "done"}

Init ==
    /\ users = {}
    /\ nextId = 1
    /\ now = 1
    /\ appleClientId \in {NULL, AppleCid}
    /\ creds = {}
    /\ req = [r \in Slots |-> IdleReq]

\* a request can start when the ones before it have, and a worker is free
CanStart(r) ==
    /\ req[r].pc = "idle"
    /\ \A q \in Slots : q < r => req[q].pc # "idle"
    /\ Cardinality({q \in Slots : InFlight(q)}) < MaxConcurrent

(* --------------------------- social login flow ------------------------ *)
\* POST /auth/social/login: the body is validated against SocialLoginRequest
\* before social_login runs
social_login(r) ==
    /\ CanStart(r)
    /\ \E inp \in SocialInputs :
         LET started == [IdleReq EXCEPT !.kind = "social", !.inp = inp,
                                        !.pre = {q \in Slots : Done(q)}] IN
         req' = [req EXCEPT ![r] =
                    IF inp.provider \notin ProviderPattern
                    THEN [started EXCEPT !.pc = "done", !.status = 422,
                                         !.error = "RequestValidationError"]
                    ELSE [started EXCEPT !.pc = "verify"]]
    /\ UNCHANGED <<users, nextId, now, appleClientId, creds>>

\* the provider dispatch of authenticate_social_user and the verifier it awaits
ProviderData(provider, tok, nonce, certs_ok, resp, client_id) ==
    IF provider = "google" THEN verify_google_token(tok, certs_ok)
    ELSE IF provider = "apple" THEN verify_apple_token(tok, nonce, resp, client_id)
    ELSE NoIdent

\* the number of verifier calls the dispatch makes
VerifierCalls(provider) == IF provider \in {"google", "apple"} THEN 1 ELSE 0

\* a flow that goes on to the link whatever the verifier returned
AfterVerifyUnchecked(q, data) ==
    [q EXCEPT !.pc = "select_provider_id", !.ident = data]

\* a rejected token answered with AuthorizationError (403)
AfterVerifyForbidden(q, data) ==
    IF ~data.ok
    THEN [q EXCEPT !.pc = "done", !.status = 403, !.error = "AuthorizationError"]
    ELSE [q EXCEPT !.pc = "select_provider_id", !.ident = data]

\* "if not provider_data: return None", and the "if not result: raise
\* AuthenticationError(...)" of social_login; otherwise on to the link
AfterVerify(q, data) ==
    IF ~data.ok
    THEN [q EXCEPT !.pc = "done", !.status = 401, !.error = "AuthenticationError"]
    ELSE [q EXCEPT !.pc = "select_provider_id", !.ident = data]

\* authenticate_social_user: the verifier call it awaits and what follows it
authenticate_social_user(r) ==
    /\ req[r].pc = "verify"
    /\ \E certs_ok \in BOOLEAN, resp \in JwksResponses :
         \* what the network answers is read only by the verifier that asks
         /\ (req[r].inp.provider = "google" => resp.kind = "ok")
         /\ (req[r].inp.provider # "google" => certs_ok)
         /\ LET data == ProviderData(req[r].inp.provider, req[r].inp.tok,
                                     req[r].inp.nonce, certs_ok, resp, appleClientId)
                q == [req[r] EXCEPT !.verifier_calls = VerifierCalls(req[r].inp.provider)]
            IN req' = [req EXCEPT ![r] = AfterVerify(q, data)]
    /\ UNCHANGED <<users, nextId, now, appleClientId, creds>>

\* a found path without "await db.commit()"
PcSkipCommit == "refresh"

\* after the attribute updates of a found row comes "await db.commit()"
PcAfterFound == "commit_update"

\* the row a scalar_one_or_none() returns (callers have excluded no row, many rows)
TheRow(rows) == CHOOSE u \in rows : TRUE

\* a resolution that consults the email first when the identity carries one
select_email_first(r) ==
    /\ req[r].pc = "select_provider_id"
    /\ LET provider == req[r].inp.provider
           ident == req[r].ident
           found == IF Truthy(ident.email) THEN {}
                    ELSE SelectWhere(users, ProviderField(provider), ident.provider_id)
           q == [req[r] EXCEPT !.db_ops = @ + 1]
       IN IF Cardinality(found) > 1
          THEN /\ req' = [req EXCEPT ![r] = [q EXCEPT !.pc = "done", !.status = 500,
                                                      !.error = "MultipleResultsFound"]]
               /\ UNCHANGED now
          ELSE IF found # {}
          THEN /\ req' = [req EXCEPT ![r] =
                            [q EXCEPT !.pc = PcAfterFound, !.via = "provider_id",
                                      !.uid = TheRow(found).id,
                                      !.changes = FoundChanges(TheRow(found), provider,
                                                               ident, FALSE, now)]]
               /\ now' = now + 1
          ELSE IF Truthy(ident.email)
          THEN /\ req' = [req EXCEPT ![r] = [q EXCEPT !.pc = "select_email"]]
               /\ UNCHANGED now
          ELSE IF ident.provider_id = NULL
          THEN \* provider_id[:8] of None
               /\ req' = [req EXCEPT ![r] = [q EXCEPT !.pc = "done", !.status = 500,
                                                      !.error = "TypeError"]]
               /\ UNCHANGED now
          ELSE /\ req' = [req EXCEPT ![r] =
                            [q EXCEPT !.pc = "probe_username",
                                      !.base = BaseUsername(provider, ident.provider_id,
                                                            ident.email),
                                      !.username = BaseUsername(provider, ident.provider_id,
                                                                ident.email),
                                      !.counter = 1]]
               /\ UNCHANGED now
    /\ UNCHANGED <<users, nextId, appleClientId, creds>>

\* create_or_update_social_user: the select by provider id, and on a match the
\* attribute updates that precede the commit
select_by_provider_id(r) ==
    /\ req[r].pc = "select_provider_id"
    /\ LET provider == req[r].inp.provider
           ident == req[r].ident
           found == SelectWhere(users, ProviderField(provider), ident.provider_id)
           q == [req[r] EXCEPT !.db_ops = @ + 1]
       IN IF Cardinality(found) > 1
          THEN /\ req' = [req EXCEPT ![r] = [q EXCEPT !.pc = "done", !.status = 500,
                                                      !.error = "MultipleResultsFound"]]
               /\ UNCHANGED now
          ELSE IF found # {}
          THEN /\ req' = [req EXCEPT ![r] =
                            [q EXCEPT !.pc = PcAfterFound, !.via = "provider_id",
                                      !.uid = TheRow(found).id,
                                      !.changes = FoundChanges(TheRow(found), provider,
                                                               ident, FALSE, now)]]
               /\ now' = now + 1
          ELSE IF Truthy(ident.email)
          THEN /\ req' = [req EXCEPT ![r] = [q EXCEPT !.pc = "select_email"]]
               /\ UNCHANGED now
          ELSE IF ident.provider_id = NULL
          THEN \* provider_id[:8] of None
               /\ req' = [req EXCEPT ![r] = [q EXCEPT !.pc = "done", !.status = 500,
                                                      !.error = "TypeError"]]
               /\ UNCHANGED now
          ELSE /\ req' = [req EXCEPT ![r] =
                            [q EXCEPT !.pc = "probe_username",
                                      !.base = BaseUsername(provider, ident.provider_id,
                                                            ident.email),
                                      !.username = BaseUsername(provider, ident.provider_id,
                                                                ident.email),
                                      !.counter = 1]]
               /\ UNCHANGED now
    /\ UNCHANGED <<users, nextId, appleClientId, creds>>

\* create_or_update_social_user: the select by email, and on a match the link
select_by_email(r) ==
    /\ req[r].pc = "select_email"
    /\ LET provider == req[r].inp.provider
           ident == req[r].ident
           found == SelectWhere(users, "email", ident.email)
           q == [req[r] EXCEPT !.db_ops = @ + 1]
       IN IF found # {}
          THEN /\ req' = [req EXCEPT ![r] =
                            [q EXCEPT !.pc = PcAfterFound, !.via = "email",
                                      !.uid = TheRow(found).id,
                                      !.changes = FoundChanges(TheRow(found), provider,
                                                               ident, TRUE, now)]]
               /\ now' = now + 1
          ELSE /\ req' = [req EXCEPT ![r] =
                            [q EXCEPT !.pc = "probe_username",
                                      !.base = BaseUsername(provider, ident.provider_id,
                                                            ident.email),
                                      !.username = BaseUsername(provider, ident.provider_id,
                                                                ident.email),
                                      !.counter = 1]]
               /\ UNCHANGED now
    /\ UNCHANGED <<users, nextId, appleClientId, creds>>

\* a probe loop that tries the same suffix again
probe_username_same_suffix(r) ==
    /\ req[r].pc = "probe_username"
    /\ LET q == [req[r] EXCEPT !.db_ops = @ + 1] IN
       req' = [req EXCEPT ![r] =
                 IF SelectWhere(users, "username", q.username) = {}
                 THEN [q EXCEPT !.pc = "insert"]
                 ELSE [q EXCEPT !.username = q.base \o Str(1),
                                !.counter = @ + 1]]
    /\ UNCHANGED <<users, nextId, now, appleClientId, creds>>

\* a probe loop that starts its suffixes at 2
probe_username_from_two(r) ==
    /\ req[r].pc = "probe_username"
    /\ LET q == [req[r] EXCEPT !.db_ops = @ + 1] IN
       req' = [req EXCEPT ![r] =
                 IF SelectWhere(users, "username", q.username) = {}
                 THEN [q EXCEPT !.pc = "insert"]
                 ELSE [q EXCEPT !.username = q.base \o Str(q.counter + 1),
                                !.counter = @ + 1]]
    /\ UNCHANGED <<users, nextId, now, appleClientId, creds>>

\* create_or_update_social_user: one turn of the "while True" username probe
probe_username(r) ==
    /\ req[r].pc = "probe_username"
    /\ LET q == [req[r] EXCEPT !.db_ops = @ + 1] IN
       req' = [req EXCEPT ![r] =
                 IF SelectWhere(users, "username", q.username) = {}
                 THEN [q EXCEPT !.pc = "insert"]
                 ELSE [q EXCEPT !.username = q.base \o Str(q.counter),
                                !.counter = @ + 1]]
    /\ UNCHANGED <<users, nextId, now, appleClientId, creds>>

\* the User(...) the create path adds
SocialRow(id, provider, ident, username, ts) ==
    NewRow(id,
           IF Truthy(ident.email) THEN ident.email
           ELSE SynthEmail(provider, ident.provider_id),
           username, NULL, ident.full_name, ident.profile_picture,
           provider, ident.provider_id, ident.email_verified, ts)

\* what a commit does with a row that breaks a unique index: the IntegrityError
\* is not caught anywhere, the request ends with 500
CommitOk(row, table) == UniqueOk(row, table)

\* create_or_update_social_user: db.add(user); await db.commit()
insert_social_user(r) ==
    /\ req[r].pc = "insert"
    /\ LET row == SocialRow(nextId, req[r].inp.provider, req[r].ident,
                            req[r].username, now)
           q == [req[r] EXCEPT !.db_ops = @ + 1]
       IN IF CommitOk(row, users)
          THEN /\ users' = users \cup {row}
               /\ req' = [req EXCEPT ![r] = [q EXCEPT !.pc = "refresh", !.via = "create",
                                                      !.uid = row.id, !.committed = TRUE]]
          ELSE /\ req' = [req EXCEPT ![r] = [q EXCEPT !.pc = "done", !.status = 500,
                                                      !.error = "IntegrityError"]]
               /\ UNCHANGED users
    /\ nextId' = nextId + 1
    /\ now' = now + 1
    /\ UNCHANGED <<appleClientId, creds>>

\* create_or_update_social_user: await db.commit() of a row that was found
commit_update(r) ==
    /\ req[r].pc = "commit_update"
    /\ LET rows == SelectWhere(users, "id", req[r].uid)
           q == [req[r] EXCEPT !.db_ops = @ + 1]
       IN IF rows = {}
          THEN /\ req' = [req EXCEPT ![r] = [q EXCEPT !.pc = "done", !.status = 500,
                                                      !.error = "StaleDataError"]]
               /\ UNCHANGED users
          ELSE LET row == ApplyChanges(TheRow(rows), req[r].changes) IN
               IF CommitOk(row, users)
               THEN /\ users' = (users \ rows) \cup {row}
                    /\ req' = [req EXCEPT ![r] = [q EXCEPT !.pc = "refresh",
                                                           !.committed = TRUE]]
               ELSE /\ req' = [req EXCEPT ![r] = [q EXCEPT !.pc = "done", !.status = 500,
                                                           !.error = "IntegrityError"]]
                    /\ UNCHANGED users
    /\ UNCHANGED <<nextId, now, appleClientId, creds>>

\* create_access_token(data={"sub": user.email}): the signed credential; uid is
\* the user it was issued for, which the token itself does not carry
AccessToken(user) == [sub |-> user.email, uid |-> user.id]

\* social_login: is_new_user = (created_at == updated_at) of the returned user
IsNewUser(user) == user.created_at = user.updated_at

\* the characters of a username: an atom of several characters counts them all
AtomLen(a) ==
    IF a = "google" THEN 6 ELSE IF a = "apple" THEN 5 ELSE IF a = "root" THEN 4 ELSE 1

RECURSIVE CharLen(_)
CharLen(s) == IF s = <<>> THEN 0 ELSE AtomLen(Head(s)) + CharLen(Tail(s))

\* the atoms that regex \w matches, and those that hold a letter
WordAtoms == {"a", "b", "c", "d", "e", "f", "g", "o", "_", "0", "1", "2", "3", "4",
              "5", "6", "7", "8", "9", "google", "apple", "root"}
LetterAtoms == WordAtoms \ {"_", "0", "1", "2", "3", "4", "5", "6", "7", "8", "9"}

\* UserBase.username: min_length and the username_alphanumeric validator
\* ^(?=.*[A-Za-z])\w+$, which UserResponse inherits
UsernameOk(name) ==
    /\ CharLen(name) >= UsernameMinLength
    /\ \A i \in 1 .. Len(name) : name[i] \in WordAtoms
    /\ \E i \in 1 .. Len(name) : name[i] \in LetterAtoms

\* response_model=SocialAuthResponse: the returned dictionary is validated
\* against UserResponse before the response is sent
ResponseOk(user) == UsernameOk(user.username)

\* await db.refresh(user), then create_access_token(data={"sub": user.email}) and
\* the response of social_login
refresh_and_issue(r) ==
    /\ req[r].pc = "refresh"
    /\ LET rows == SelectWhere(users, "id", req[r].uid)
           q == [req[r] EXCEPT !.db_ops = @ + 1]
       IN /\ req' = [req EXCEPT ![r] =
                    IF rows = {}
                    THEN [q EXCEPT !.pc = "done", !.status = 500,
                                   !.error = "InvalidRequestError"]
                    ELSE IF ~ResponseOk(TheRow(rows))
                    THEN [q EXCEPT !.pc = "done", !.status = 500,
                                   !.user = TheRow(rows),
                                   !.error = "ResponseValidationError"]
                    ELSE [q EXCEPT !.pc = "done", !.status = 200,
                                   !.user = TheRow(rows),
                                   !.credential = AccessToken(TheRow(rows)).sub,
                                   !.is_new_user = IsNewUser(TheRow(rows))]]
          /\ creds' = IF rows = {} \/ ~ResponseOk(TheRow(rows)) THEN creds
                      ELSE creds \cup {AccessToken(TheRow(rows))}
    /\ UNCHANGED <<users, nextId, now, appleClientId>>

(* ------------------------- UserService.create_user -------------------- *)
\* get_password_hash(password): the hash is a function of the password the
\* model never inverts
PasswordHash(password) == <<"argon2">> \o password

\* POST /auth/register, up to the email check of create_user
register(r) ==
    /\ CanStart(r)
    /\ \E inp \in RegisterInputs :
         LET q == [IdleReq EXCEPT !.kind = "register", !.inp = inp, !.db_ops = 1,
                                  !.pre = {p \in Slots : Done(p)}] IN
         req' = [req EXCEPT ![r] =
                   IF SelectWhere(users, "email", inp.email) # {}
                   THEN [q EXCEPT !.pc = "done", !.status = 409,
                                  !.error = "ResourceAlreadyExistsError"]
                   ELSE [q EXCEPT !.pc = "create_select_username"]]
    /\ UNCHANGED <<users, nextId, now, appleClientId, creds>>

\* a create_user without the username check
create_user_no_username_check(r) ==
    /\ req[r].pc = "create_select_username"
    /\ req' = [req EXCEPT ![r] = [req[r] EXCEPT !.db_ops = @ + 1, !.pc = "create_insert"]]
    /\ UNCHANGED <<users, nextId, now, appleClientId, creds>>

\* create_user: the username check
create_user_select_username(r) ==
    /\ req[r].pc = "create_select_username"
    /\ LET q == [req[r] EXCEPT !.db_ops = @ + 1] IN
       req' = [req EXCEPT ![r] =
                 IF SelectWhere(users, "username", q.inp.username) # {}
                 THEN [q EXCEPT !.pc = "done", !.status = 409,
                                !.error = "ResourceAlreadyExistsError"]
                 ELSE [q EXCEPT !.pc = "create_insert"]]
    /\ UNCHANGED <<users, nextId, now, appleClientId, creds>>

\* create_user: db.add(db_user); await db.commit()
create_user_insert(r) ==
    /\ req[r].pc = "create_insert"
    /\ LET row == NewRow(nextId, req[r].inp.email, req[r].inp.username,
                         PasswordHash(req[r].inp.password), req[r].inp.full_name,
                         NULL, "", NULL, FALSE, now)
           q == [req[r] EXCEPT !.db_ops = @ + 1]
       IN IF CommitOk(row, users)
          THEN /\ users' = users \cup {row}
               /\ req' = [req EXCEPT ![r] = [q EXCEPT !.pc = "create_refresh",
                                                      !.uid = row.id, !.committed = TRUE]]
          ELSE /\ req' = [req EXCEPT ![r] = [q EXCEPT !.pc = "done", !.status = 500,
                                                      !.error = "IntegrityError"]]
               /\ UNCHANGED users
    /\ nextId' = nextId + 1
    /\ now' = now + 1
    /\ UNCHANGED <<appleClientId, creds>>

\* create_user: await db.refresh(db_user), and the 201 of register
create_user_refresh(r) ==
    /\ req[r].pc = "create_refresh"
    /\ LET rows == SelectWhere(users, "id", req[r].uid)
           q == [req[r] EXCEPT !.db_ops = @ + 1]
       IN req' = [req EXCEPT ![r] =
                    IF rows = {}
                    THEN [q EXCEPT !.pc = "done", !.status = 500,
                                   !.error = "InvalidRequestError"]
                    ELSE [q EXCEPT !.pc = "done", !.status = 201, !.user = TheRow(rows)]]
    /\ UNCHANGED <<users, nextId, now, appleClientId, creds>>

(* ------------------------- UserService.update_user -------------------- *)
\* the step of update_user that follows the loaded user and the checks made so far
UpdateNextPc(data, user, after) ==
    IF after = "get" /\ "email" \in DOMAIN data /\ data.email # user.email
    THEN "update_select_email"
    ELSE IF "username" \in DOMAIN data /\ data.username # user.username
    THEN "update_select_username"
    ELSE "update_commit"

\* the credentials of POST /auth/login: the registrants know their passwords
LoginInputs == {[email |-> i.email, password |-> i.password] : i \in RegisterInputs}
                 \cup {[email |-> d.email, password |-> i.password] :
                          d \in {u \in UpdateInputs : "email" \in DOMAIN u},
                          i \in RegisterInputs}

\* UserService.authenticate_user: the row of the email, when the password is
\* its password and the row is active
AuthenticatedRows(table, email, password) ==
    {u \in SelectWhere(table, "email", email) :
        u.hashed_password = PasswordHash(password) /\ u.is_active}

\* POST /auth/login with the right password: one select, then the credential
login ==
    /\ \E inp \in LoginInputs :
         LET rows == AuthenticatedRows(users, inp.email, inp.password) IN
         /\ rows # {}
         /\ AccessToken(TheRow(rows)) \notin creds
         /\ creds' = creds \cup {AccessToken(TheRow(rows))}
    /\ UNCHANGED <<users, nextId, now, appleClientId, req>>

\* PATCH /users/{user_id} with a credential: get_current_user,
\* get_current_active_user and the permission check of the endpoint
update_user(r) ==
    /\ CanStart(r)
    /\ \E c \in creds, user_id \in 1 .. (nextId - 1), data \in UpdateInputs :
         LET rows == SelectWhere(users, "email", c.sub)
             q == [IdleReq EXCEPT !.kind = "update", !.db_ops = 1,
                                  !.inp = [credential |-> c, user_id |-> user_id,
                                           data |-> data],
                                  !.pre = {p \in Slots : Done(p)}]
         IN req' = [req EXCEPT ![r] =
                      IF rows = {}
                      THEN [q EXCEPT !.pc = "done", !.status = 401,
                                     !.error = "HTTPException"]
                      ELSE IF ~TheRow(rows).is_active
                      THEN [q EXCEPT !.pc = "done", !.status = 400,
                                     !.error = "HTTPException"]
                      ELSE IF user_id # TheRow(rows).id /\ ~TheRow(rows).is_superuser
                      THEN [q EXCEPT !.pc = "done", !.status = 403,
                                     !.error = "AuthorizationError"]
                      ELSE [q EXCEPT !.pc = "update_get", !.uid = user_id,
                                     !.user = TheRow(rows)]]
    /\ UNCHANGED <<users, nextId, now, appleClientId, creds>>

\* update_user: get_user_by_id; a row the session has already loaded keeps
\* the attributes it was loaded with
update_user_get(r) ==
    /\ req[r].pc = "update_get"
    /\ LET rows == SelectWhere(users, "id", req[r].uid)
           q == [req[r] EXCEPT !.db_ops = @ + 1]
       IN req' = [req EXCEPT ![r] =
                    IF rows = {}
                    THEN [q EXCEPT !.pc = "done", !.status = 404,
                                   !.error = "ResourceNotFoundError"]
                    ELSE LET user == IF q.user.id = q.uid THEN q.user ELSE TheRow(rows) IN
                         [q EXCEPT !.pc = UpdateNextPc(q.inp.data, user, "get"),
                                   !.user = user]]
    /\ UNCHANGED <<users, nextId, now, appleClientId, creds>>

\* update_user: the email uniqueness check, then user.email = update_data["email"]
update_user_select_email(r) ==
    /\ req[r].pc = "update_select_email"
    /\ LET q == [req[r] EXCEPT !.db_ops = @ + 1]
           data == q.inp.data
       IN req' = [req EXCEPT ![r] =
                    IF SelectWhere(users, "email", data.email) # {}
                    THEN [q EXCEPT !.pc = "done", !.status = 409,
                                   !.error = "ResourceAlreadyExistsError"]
                    ELSE [q EXCEPT !.pc = UpdateNextPc(data, q.user, "email"),
                                   !.changes = [email |-> data.email]]]
    /\ UNCHANGED <<users, nextId, now, appleClientId, creds>>

\* update_user: the username uniqueness check, then user.username = ...
update_user_select_username(r) ==
    /\ req[r].pc = "update_select_username"
    /\ LET q == [req[r] EXCEPT !.db_ops = @ + 1]
           data == q.inp.data
       IN req' = [req EXCEPT ![r] =
                    IF SelectWhere(users, "username", data.username) # {}
                    THEN [q EXCEPT !.pc = "done", !.status = 409,
                                   !.error = "ResourceAlreadyExistsError"]
                    ELSE [q EXCEPT !.pc = "update_commit",
                                   !.changes = [c \in DOMAIN q.changes \cup {"username"} |->
                                                   IF c = "username" THEN data.username
                                                   ELSE q.changes[c]]]]
    /\ UNCHANGED <<users, nextId, now, appleClientId, creds>>

\* the columns an UPDATE of the row writes: the changed ones and, when there is
\* any, updated_at (onupdate=func.now())
WithOnUpdate(changes, ts) ==
    IF DOMAIN changes = {} THEN changes
    ELSE [c \in DOMAIN changes \cup {"updated_at"} |->
             IF c = "updated_at" THEN ts ELSE changes[c]]

\* update_user: await db.commit()
update_user_commit(r) ==
    /\ req[r].pc = "update_commit"
    /\ LET rows == SelectWhere(users, "id", req[r].uid)
           q == [req[r] EXCEPT !.db_ops = @ + 1]
       IN IF DOMAIN req[r].changes = {}
          THEN /\ req' = [req EXCEPT ![r] = [q EXCEPT !.pc = "update_refresh"]]
               /\ UNCHANGED <<users, now>>
          ELSE IF rows = {}
          THEN /\ req' = [req EXCEPT ![r] = [q EXCEPT !.pc = "done", !.status = 500,
                                                      !.error = "StaleDataError"]]
               /\ UNCHANGED <<users, now>>
          ELSE LET row == ApplyChanges(TheRow(rows), WithOnUpdate(req[r].changes, now)) IN
               /\ now' = now + 1
               /\ IF CommitOk(row, users)
                  THEN /\ users' = (users \ rows) \cup {row}
                       /\ req' = [req EXCEPT ![r] = [q EXCEPT !.pc = "update_refresh",
                                                              !.committed = TRUE]]
                  ELSE /\ req' = [req EXCEPT ![r] = [q EXCEPT !.pc = "done", !.status = 500,
                                                              !.error = "IntegrityError"]]
                       /\ UNCHANGED users
    /\ UNCHANGED <<nextId, appleClientId, creds>>

\* update_user: await db.refresh(user), and the 200 of the endpoint
update_user_refresh(r) ==
    /\ req[r].pc = "update_refresh"
    /\ LET rows == SelectWhere(users, "id", req[r].uid)
           q == [req[r] EXCEPT !.db_ops = @ + 1]
       IN req' = [req EXCEPT ![r] =
                    IF rows = {}
                    THEN [q EXCEPT !.pc = "done", !.status = 500,
                                   !.error = "InvalidRequestError"]
                    ELSE IF ~ResponseOk(TheRow(rows))
                    THEN [q EXCEPT !.pc = "done", !.status = 500,
                                   !.error = "ResponseValidationError"]
                    ELSE [q EXCEPT !.pc = "done", !.status = 200, !.user = TheRow(rows)]]
    /\ UNCHANGED <<users, nextId, now, appleClientId, creds>>

(* ------------------------------ the system ---------------------------- *)
Next ==
    \/ login
    \/ \E r \in Slots :
        \/ social_login(r)
        \/ authenticate_social_user(r)
        \/ select_by_provider_id(r)
        \/ select_by_email(r)
        \/ probe_username(r)
        \/ insert_social_user(r)
        \/ commit_update(r)
        \/ refresh_and_issue(r)
        \/ register(r)
        \/ create_user_select_username(r)
        \/ create_user_insert(r)
        \/ create_user_refresh(r)
        \/ update_user(r)
        \/ update_user_get(r)
        \/ update_user_select_email(r)
        \/ update_user_select_username(r)
        \/ update_user_commit(r)
        \/ update_user_refresh(r)

Spec == Init /\ [][Next]_vars

(* ----------------------- the superuser endpoints ---------------------- *)
\* a gate that lets every active user through
SuperuserGateOpen(c, table) ==
    LET rows == SelectWhere(table, "email", c.sub) IN
    IF rows = {} THEN [status |-> 401, error |-> "HTTPException"]
    ELSE IF ~TheRow(rows).is_active THEN [status |-> 400, error |-> "HTTPException"]
    ELSE [status |-> 0, error |-> "ok"]

\* get_current_user, get_current_active_user and get_current_superuser for
\* credential c: the response that refuses the request, or "ok"
SuperuserGate(c, table) ==
    LET rows == SelectWhere(table, "email", c.sub) IN
    IF rows = {} THEN [status |-> 401, error |-> "HTTPException"]
    ELSE IF ~TheRow(rows).is_active THEN [status |-> 400, error |-> "HTTPException"]
    ELSE IF ~TheRow(rows).is_superuser THEN [status |-> 403, error |-> "HTTPException"]
    ELSE [status |-> 0, error |-> "ok"]

\* DELETE /users/{user_id} with a credential
delete_user(r) ==
    /\ CanStart(r)
    /\ \E c \in creds, user_id \in 1 .. (nextId - 1) :
         LET gate == SuperuserGate(c, users)
             q == [IdleReq EXCEPT !.kind = "delete", !.db_ops = 1,
                                  !.inp = [credential |-> c, user_id |-> user_id],
                                  !.pre = {p \in Slots : Done(p)}]
         IN req' = [req EXCEPT ![r] =
                      IF gate.error # "ok"
                      THEN [q EXCEPT !.pc = "done", !.status = gate.status,
                                     !.error = gate.error]
                      ELSE [q EXCEPT !.pc = "delete_get", !.uid = user_id]]
    /\ UNCHANGED <<users, nextId, now, appleClientId, creds>>

\* UserService.delete_user: get_user_by_id
delete_user_get(r) ==
    /\ req[r].pc = "delete_get"
    /\ LET rows == SelectWhere(users, "id", req[r].uid)
           q == [req[r] EXCEPT !.db_ops = @ + 1]
       IN req' = [req EXCEPT ![r] =
                    IF rows = {}
                    THEN [q EXCEPT !.pc = "done", !.status = 404,
                                   !.error = "ResourceNotFoundError"]
                    ELSE [q EXCEPT !.pc = "delete_commit"]]
    /\ UNCHANGED <<users, nextId, now, appleClientId, creds>>

\* UserService.delete_user: await db.delete(user); await db.commit(), and the
\* 204 of the endpoint (a DELETE that matches no row only warns)
delete_user_commit(r) ==
    /\ req[r].pc = "delete_commit"
    /\ users' = users \ SelectWhere(users, "id", req[r].uid)
    /\ req' = [req EXCEPT ![r] = [req[r] EXCEPT !.db_ops = @ + 1, !.pc = "done",
                                                !.status = 204, !.committed = TRUE]]
    /\ UNCHANGED <<nextId, now, appleClientId, creds>>

\* GET /users/ with a credential
read_users(r) ==
    /\ CanStart(r)
    /\ \E c \in creds :
         LET gate == SuperuserGate(c, users)
             q == [IdleReq EXCEPT !.kind = "list", !.db_ops = 1,
                                  !.inp = [credential |-> c],
                                  !.pre = {p \in Slots : Done(p)}]
         IN req' = [req EXCEPT ![r] =
                      IF gate.error # "ok"
                      THEN [q EXCEPT !.pc = "done", !.status = gate.status,
                                     !.error = gate.error]
                      ELSE [q EXCEPT !.pc = "done", !.status = 200, !.db_ops = 2]]
    /\ UNCHANGED <<users, nextId, now, appleClientId, creds>>

(* ---------------------- one flow against a given table ---------------- *)
\* rows that earlier registrations and social logins have left in the table
EmailEX == <<"e", "@", "x.com">>

SeedRows ==
    { NewRow(1, EmailBX, <<"b", "o", "b">>, PasswordHash(<<"Passw0rd!">>), NULL, <<"old">>, "none", NULL, FALSE, 1),
      NewRow(2, <<"c", "@", "x.com">>, <<"b", "o", "b", "1">>, PasswordHash(<<"Passw0rd!">>), NULL, NULL, "none", NULL, FALSE, 1),
      NewRow(3, <<"d", "@", "x.com">>, <<"b", "o", "b", "2">>, PasswordHash(<<"Passw0rd!">>), NULL, NULL, "none", NULL, FALSE, 1),
      NewRow(4, EmailEX, <<"g", "e", "e">>, NULL, <<"Gee">>, NULL, "google", <<"1">>, TRUE, 1),
      NewRow(5, <<"f", "@", "x.com">>, <<"apple", "_", "1">>, PasswordHash(<<"Passw0rd!">>), NULL, NULL, "none", NULL, FALSE, 1),
      \* an account linked to the Apple identity 1 that has been deactivated
      [NewRow(6, <<"g", "@", "x.com">>, <<"d", "o", "g">>, NULL, NULL, NULL, "apple", <<"1">>, FALSE, 1) EXCEPT !.is_active = FALSE] }

\* the tokens the providers issue: the flow under study carries one of them
\* a Google account other than the one row 4 is linked to, which names the
\* address of row 4 without Google having verified it
UnverifiedEX == [GoodG EXCEPT !.sub = <<"4">>, !.email = EmailEX, !.email_verified = FALSE,
                              !.name = <<"Eve">>, !.picture = <<"pic2">>]

\* the same Google account once Google has verified the address
VerifiedEX == [UnverifiedEX EXCEPT !.email_verified = TRUE]

\* a Google account whose address has a dot before the @
EmailDotted == <<"a", ".", "b", "@", "x.com">>

IssuedInputs == {i \in SocialInputs : i.provider \in Providers /\ i.tok \in {GoodG, GoodA}}
                   \cup {i \in SocialInputs : i.provider = "google" /\ i.tok.sub = <<"2">>}
                   \cup {[provider |-> "google",
                          tok |-> [GoodG EXCEPT !.sub = <<"3">>, !.email = EmailDotted],
                          nonce |-> NULL],
                         [provider |-> "google", tok |-> UnverifiedEX, nonce |-> NULL],
                         [provider |-> "google", tok |-> VerifiedEX, nonce |-> NULL]}

InitLink ==
    /\ users \in SUBSET SeedRows
    /\ nextId = Cardinality(SeedRows) + 1
    /\ now = 2
    /\ appleClientId \in {NULL, AppleCid}
    /\ creds = {}
    /\ \E inp \in IssuedInputs :
         req = [r \in Slots |->
                  IF r = 1 THEN [IdleReq EXCEPT !.kind = "social", !.inp = inp, !.pc = "verify"]
                  ELSE IdleReq]

NextLink ==
    \E r \in Slots :
        \/ authenticate_social_user(r)
        \/ select_by_provider_id(r)
        \/ select_by_email(r)
        \/ probe_username(r)
        \/ insert_social_user(r)
        \/ commit_update(r)
        \/ refresh_and_issue(r)

LinkSpec == InitLink /\ [][NextLink]_vars

\* a request handler that awaits the network or the database is resumed when
\* the answer arrives: as long as they answer, the flow takes its next step
LinkFairSpec == LinkSpec /\ WF_vars(NextLink)

(* -------------------- the endpoints on given accounts --------------- *)
\* the accounts the endpoints are called on: two registered users and a
\* superuser, each holding a credential
AdminRow ==
    [NewRow(3, <<"root", "@", "x.com">>, <<"root">>, PasswordHash(<<"Passw0rd!">>), NULL, NULL, "none", NULL, FALSE, 1) EXCEPT !.is_superuser = TRUE]

AccountRows == {u \in SeedRows : u.id \in {1, 2}} \cup {AdminRow}

InitAccount ==
    /\ users = AccountRows
    /\ nextId = Cardinality(AccountRows) + 1
    /\ now = 2
    /\ appleClientId = NULL
    /\ creds = {AccessToken(u) : u \in AccountRows}
    /\ req = [r \in Slots |-> IdleReq]

NextAccount ==
    \E r \in Slots :
        \/ update_user(r)
        \/ update_user_get(r)
        \/ update_user_select_email(r)
        \/ update_user_select_username(r)
        \/ update_user_commit(r)
        \/ update_user_refresh(r)
        \/ delete_user(r)
        \/ delete_user_get(r)
        \/ delete_user_commit(r)
        \/ read_users(r)

AccountSpec == InitAccount /\ [][NextAccount]_vars

(* ------------------------- the verifiers on their own ------------------ *)
\* the tokens handed to the verifiers: every combination of header, signing
\* key, expiry, issuer, audience, sub and nonce claim
Nonce1 == <<"n1">>
Nonce2 == <<"n2">>

AppleTokens ==
    [fmt : BOOLEAN, kid : {<<"ak1">>, <<"ak9">>, NULL}, sig : {"akey1", "evil"},
     exp_ok : BOOLEAN, iss : {AppleIssuer, <<"https://evil.example">>, NULL},
     aud : {AppleCid, <<"other-client">>}, sub : {<<"1">>, NULL},
     email : {NULL, EmailBX}, email_verified : {FALSE}, name : {NULL}, picture : {NULL},
     nonce : {NULL, Sha256Hex(Nonce1), Sha256Hex(Nonce2)}]

GoogleTokens ==
    [fmt : BOOLEAN, kid : {<<"gk">>}, sig : {"gkey", "evil"},
     exp_ok : BOOLEAN, iss : GoogleIssuers \cup {<<"https://evil.example">>, NULL},
     aud : {GoogleClientId, <<"other-client">>}, sub : {<<"1">>, NULL},
     email : {NULL, EmailBX}, email_verified : BOOLEAN, name : {NULL, <<"Bob">>},
     picture : {NULL}, nonce : {NULL}]

\* a call of a verifier: its arguments and what the network answers it
VerifyCalls ==
    [provider : {"apple"}, tok : AppleTokens, nonce : {NULL, Nonce1},
     certs_ok : {TRUE}, jwks : JwksResponses]
    \cup
    [provider : {"google"}, tok : GoogleTokens, nonce : {NULL},
     certs_ok : BOOLEAN, jwks : {[kind |-> "ok", has_keys |-> TRUE, keys |-> AppleKeys]}]

\* the call is made by the first request; nothing else runs
PendingCall(c) == [IdleReq EXCEPT !.kind = "verify", !.pc = "verify", !.inp = c]

InitVerify ==
    /\ users = {}
    /\ nextId = 1
    /\ now = 1
    /\ appleClientId \in {NULL, AppleCid}
    /\ creds = {}
    /\ \E c \in VerifyCalls :
         req = [r \in Slots |-> IF r = 1 THEN PendingCall(c) ELSE IdleReq]

\* what a returned call leaves behind: the provider_data, the exception caught
\* inside the verifier, the JWKS fetches made, whether the signature was checked
Returned(q, data, raised, fetches, sig_checked) ==
    [kind |-> "verify", pc |-> "done", inp |-> q.inp, ident |-> data,
     raised |-> raised, fetches |-> fetches, sig_checked |-> sig_checked]

\* await SocialAuthService.verify_google_token(token)
call_verify_google_token(r) ==
    /\ req[r].pc = "verify"
    /\ req[r].kind = "verify"
    /\ req[r].inp.provider = "google"
    /\ LET c == req[r].inp
           data == verify_google_token(c.tok, c.certs_ok)
       IN req' = [req EXCEPT ![r] =
                    Returned(req[r], data, IF data.ok THEN "none" ELSE "Exception", 0,
                             c.certs_ok /\ c.tok.fmt)]
    /\ UNCHANGED <<users, nextId, now, appleClientId, creds>>

\* await SocialAuthService.verify_apple_token(token, authorization_code, nonce)
call_verify_apple_token(r) ==
    /\ req[r].pc = "verify"
    /\ req[r].kind = "verify"
    /\ req[r].inp.provider = "apple"
    /\ LET c == req[r].inp
           data == verify_apple_token(c.tok, c.nonce, c.jwks, appleClientId)
       IN req' = [req EXCEPT ![r] =
                    Returned(req[r], data,
                             AppleRaised(c.tok, c.nonce, c.jwks, appleClientId), 1,
                             SignatureChecked(c.tok, c.jwks))]
    /\ UNCHANGED <<users, nextId, now, appleClientId, creds>>

NextVerify ==
    \E r \in Slots :
        \/ call_verify_google_token(r)
        \/ call_verify_apple_token(r)

VerifySpec == InitVerify /\ [][NextVerify]_vars

(* ------------------------------- properties --------------------------- *)
Social(r) == req[r].kind = "social"

\* both flows carry a verified identity of the same provider and provider user id
SameIdentity(r1, r2) ==
    /\ Social(r1) /\ Social(r2)
    /\ req[r1].ident.ok /\ req[r2].ident.ok
    /\ req[r1].inp.provider = req[r2].inp.provider
    /\ req[r1].ident.provider_id = req[r2].ident.provider_id

\* neither request had ended when the other started
Concurrent(r1, r2) == r1 \notin req[r2].pre /\ r2 \notin req[r1].pre

\* no request but those of S has been issued
OnlyRequests(S) == \A q \in Slots \ S : req[q].pc = "idle"

\* the rows that carry the identity of flow r
RowsOfIdentity(r) ==
    SelectWhere(users, ProviderField(req[r].inp.provider), req[r].ident.provider_id)

\* C1: two concurrent social-login flows with the identical brand-new identity
\* both end successfully with the same user id, and exactly one row holds the
\* identity.
C1_ConcurrentNewIdentityBothSucceed ==
    \A r1, r2 \in Slots :
        ( /\ r1 # r2
          /\ SameIdentity(r1, r2)
          /\ Concurrent(r1, r2)
          /\ OnlyRequests({r1, r2})
          /\ Done(r1) /\ Done(r2) )
        => /\ req[r1].status = 200
           /\ req[r2].status = 200
           /\ req[r1].uid = req[r2].uid
           /\ Cardinality(RowsOfIdentity(r1)) = 1

\* C2: a uniqueness violation raised by the create or link commit of a flow
\* never surfaces from the flow as an unhandled failure.
C2_UniquenessViolationHandled ==
    \A r \in Slots : Social(r) => req[r].error # "IntegrityError"

\* C3: in every reachable state the users table holds at most one row per
\* (provider, provider user id), no two rows share a username, and no two rows
\* share an email.
C3_TableUniqueness ==
    \A u, v \in users :
        u # v =>
            /\ u.id # v.id
            /\ u.username # v.username
            /\ u.email # v.email
            /\ (u.google_id # NULL => u.google_id # v.google_id)
            /\ (u.apple_id # NULL => u.apple_id # v.apple_id)

\* C3 witness: a commit was refused on a unique index while the table holds a
\* password row and a row with a provider id.
C3_Witness ==
    /\ \E r \in Slots : req[r].error = "IntegrityError"
    /\ \E u \in users : u.hashed_password # NULL
    /\ \E u \in users : u.google_id # NULL \/ u.apple_id # NULL

\* every other request had ended before r1 started, or was never issued
Isolated(r1, r2) ==
    \A q \in Slots \ {r1, r2} : req[q].pc = "idle" \/ q \in req[r1].pre

\* flow r2 links the identity flow r1 has linked, after r1 ended with success
LinkedTwice(r1, r2) ==
    /\ r1 # r2
    /\ SameIdentity(r1, r2)
    /\ r1 \in req[r2].pre
    /\ req[r1].status = 200
    /\ Isolated(r1, r2)
    /\ Done(r2)

\* C4: linking the same identity twice in sequence leaves exactly one row for
\* it; the second flow succeeds with the user id of the first and is_new_user
\* = false.
C4_LinkTwiceIdempotent ==
    \A r1, r2 \in Slots :
        LinkedTwice(r1, r2)
        => /\ req[r2].status = 200
           /\ req[r2].uid = req[r1].uid
           /\ ~req[r2].is_new_user
           /\ Cardinality(RowsOfIdentity(r2)) = 1

\* C4 witness: a flow created the row of a new identity and a later flow with
\* the same identity has ended.
C4_Witness ==
    \E r1, r2 \in Slots :
        LinkedTwice(r1, r2) /\ req[r1].via = "create" /\ req[r2].via = "provider_id"

\* the commit of flow r on the match-by-email path succeeds in this step
LinksByEmail(r) ==
    /\ Social(r)
    /\ req[r].pc = "commit_update"
    /\ req[r].via = "email"
    /\ req'[r].pc = "refresh"

\* C5: a link that matches an existing row by email only attaches the provider
\* id to that row: no row is created, the password hash, id, username and
\* email of the row are unchanged, and the flow reports is_new_user = false.
C5_LinkByEmailKeepsAccount ==
    /\ [](\A r \in Slots :
            (Social(r) /\ req[r].via = "email" /\ req[r].status = 200)
            => ~req[r].is_new_user)
    /\ [][\A r \in Slots :
            LinksByEmail(r)
            => /\ {u.id : u \in users'} = {u.id : u \in users}
               /\ \A u \in users : \A v \in users' :
                     u.id = v.id => /\ v.hashed_password = u.hashed_password
                                    /\ v.username = u.username
                                    /\ v.email = u.email
               /\ \E v \in users' :
                     /\ v.id = req[r].uid
                     /\ v[ProviderField(req[r].inp.provider)] = req[r].ident.provider_id
         ]_vars

\* C5 witness: a Google flow ended with success after it was linked by email to
\* a row that has a password hash.
C5_Witness ==
    \E r \in Slots :
        /\ Social(r) /\ req[r].via = "email" /\ req[r].status = 200
        /\ req[r].user.hashed_password # NULL
        /\ req[r].user.google_id = req[r].ident.provider_id
        /\ req[r].user.email = req[r].ident.email

\* C6: is_new_user of a successful flow is true exactly when that flow inserted
\* the row.
C6_IsNewIffCreated ==
    \A r \in Slots :
        (Social(r) /\ req[r].status = 200)
        => (req[r].is_new_user <=> req[r].via = "create")

\* the flow called a verifier and the verifier returned no identity
VerificationFailed(r) ==
    Social(r) /\ req[r].verifier_calls = 1 /\ ~req[r].ident.ok

\* C7: a flow whose token verification fails has ended: it made no read or
\* write of the users table, holds no session credential and is answered 401.
C7_RejectedTokenIsTerminal ==
    \A r \in Slots :
        VerificationFailed(r)
        => /\ Done(r)
           /\ req[r].status = 401
           /\ req[r].db_ops = 0
           /\ ~req[r].committed
           /\ req[r].uid = 0
           /\ req[r].credential = NULL

\* C7 witness: a Google flow and an Apple flow were rejected by their verifiers
\* while the table holds a row.
C7_Witness ==
    /\ users # {}
    /\ \E r \in Slots : VerificationFailed(r) /\ req[r].inp.provider = "google"
    /\ \E r \in Slots : VerificationFailed(r) /\ req[r].inp.provider = "apple"

UnknownProvider(r) == Social(r) /\ req[r].inp.provider \notin Providers

\* C8 as stated: a flow with an unknown provider tag ends with
\* UnsupportedProviderError (401), no verifier call and no table access.
C8_UnsupportedProviderError ==
    \A r \in Slots :
        (UnknownProvider(r) /\ Done(r))
        => /\ req[r].error = "UnsupportedProviderError"
           /\ req[r].status = 401
           /\ req[r].verifier_calls = 0
           /\ req[r].db_ops = 0

\* C8: a request with a provider tag other than google or apple is refused by
\* the validation of the request body with 422, before any verifier is
\* called and without any access to the users table.
C8_UnknownProviderRefusedByValidation ==
    \A r \in Slots :
        UnknownProvider(r)
        => /\ Done(r)
           /\ req[r].status = 422
           /\ req[r].error = "RequestValidationError"
           /\ req[r].verifier_calls = 0
           /\ req[r].db_ops = 0
           /\ ~req[r].committed
           /\ req[r].credential = NULL

\* C8 witness: a request with the tag "facebook" has ended while the table
\* holds a row.
C8_Witness ==
    /\ users # {}
    /\ \E r \in Slots : UnknownProvider(r) /\ Done(r)

\* the steps of create_or_update_social_user and what follows it
LinkPcs == {"select_provider_id", "select_email", "probe_username", "insert",
            "commit_update", "refresh"}

\* C9: a flow is in the link step only after its verification succeeded, and a
\* session credential is issued only after the commit of the flow, for the
\* email of a committed row.
C9_VerifyLinkIssueOrdered ==
    /\ [](\A r \in Slots :
            Social(r)
            => /\ (req[r].pc \in LinkPcs => req[r].ident.ok /\ req[r].verifier_calls = 1)
               /\ (req[r].credential # NULL => req[r].ident.ok /\ req[r].committed))
    /\ [][\A r \in Slots :
            (req[r].credential = NULL /\ req'[r].credential # NULL)
            => /\ req[r].committed
               /\ \E u \in users : u.id = req[r].uid /\ u.email = req'[r].credential
         ]_vars

\* C9 witness: a flow that found its row by provider id holds a credential.
C9_Witness ==
    \E r \in Slots :
        Social(r) /\ req[r].credential # NULL /\ req[r].via = "provider_id"

\* the error kinds of the specification's taxonomy
SpecErrorKinds == {"UnsupportedProviderError", "InvalidTokenError", "IssuerMismatchError",
                   "AudienceMismatchError", "ProviderUnavailableError",
                   "ConcurrentLinkConflict", "PersistenceError"}

FailedSocial(r) == Social(r) /\ Done(r) /\ req[r].status # 200

DatabaseErrors == {"IntegrityError", "StaleDataError", "InvalidRequestError",
                   "MultipleResultsFound", "TypeError"}

AppleReturned(r) ==
    req[r].kind = "verify" /\ req[r].pc = "done" /\ req[r].inp.provider = "apple"

\* the key set came back and the header parsed, but no entry has the header's kid
UnknownKid(r) ==
    /\ AppleReturned(r)
    /\ req[r].inp.jwks.has_keys
    /\ req[r].inp.tok.fmt
    /\ MatchingKeys(req[r].inp.tok, req[r].inp.jwks.keys) = {}

\* C11 as stated: a token whose kid matches no fetched key fails with
\* InvalidTokenError before the signature check, and no identity is emitted.
C11_UnknownKidInvalidTokenError ==
    \A r \in Slots :
        UnknownKid(r)
        => /\ req[r].raised = "InvalidTokenError"
           /\ ~req[r].sig_checked
           /\ ~req[r].ident.ok

\* C11: a token whose kid matches no fetched key makes the verifier raise
\* ValueError inside its try block and return None (no identity), before the
\* signature check.
C11_UnknownKidReturnsNone ==
    \A r \in Slots :
        UnknownKid(r)
        => /\ req[r].raised = "ValueError"
           /\ ~req[r].sig_checked
           /\ req[r].ident = NoIdent

\* C11 witness: a well-signed, unexpired Apple token whose kid is not in the
\* key set was refused.
C11_Witness ==
    \E r \in Slots :
        /\ UnknownKid(r)
        /\ req[r].inp.tok.kid = <<"ak9">>
        /\ req[r].inp.tok.sig = "akey1"
        /\ req[r].inp.tok.exp_ok
        /\ req[r].inp.tok.iss = AppleIssuer
        /\ req[r].inp.jwks.kind = "ok"

\* C12: an Apple flow fetches the key set at most once, and when the fetch
\* fails on the network or comes back with a non-success response the
\* verification fails without using key material of the response.
C12_FailedFetchIsTerminal ==
    \A r \in Slots :
        AppleReturned(r)
        => /\ req[r].fetches <= 1
           /\ (req[r].inp.jwks.kind # "ok"
                  => /\ ~req[r].ident.ok
                     /\ ~req[r].sig_checked)

\* the nonces a caller can supply and the nonce claims a token can carry
CallerNonces == {NULL, Nonce1, Nonce2}
NonceClaims == {NULL, Sha256Hex(Nonce1), Sha256Hex(Nonce2)}

\* C13: the result of verify_apple_token (success and the emitted identity) is
\* the same for every caller nonce and every nonce claim of the token, all
\* else equal: a nonce mismatch never causes failure.
C13_NonceNeverMatters ==
    \A r \in Slots :
        AppleReturned(r)
        => \A n \in CallerNonces, tn \in NonceClaims :
              verify_apple_token([req[r].inp.tok EXCEPT !.nonce = tn], n,
                                 req[r].inp.jwks, appleClientId) = req[r].ident

\* C13 witness: a token that passed the signature, audience and issuer checks
\* was accepted although its nonce claim is not the hash of the caller's nonce.
C13_Witness ==
    \E r \in Slots :
        /\ AppleReturned(r)
        /\ req[r].ident.ok
        /\ appleClientId = AppleCid
        /\ NonceMismatch(req[r].inp.tok, req[r].inp.nonce)

\* a call of either verifier that has returned
VerifierReturned(r) == req[r].kind = "verify" /\ req[r].pc = "done"

\* C14: on every successful verification the emitted provider_id is the
\* token's sub claim and a non-empty string; a token without a sub claim
\* yields no identity.
C14_ProviderIdIsNonEmptySub ==
    \A r \in Slots :
        (VerifierReturned(r) /\ req[r].ident.ok)
        => /\ req[r].ident.provider_id = req[r].inp.tok.sub
           /\ req[r].inp.tok.sub # NULL
           /\ Len(req[r].ident.provider_id) > 0

(* ----------------------- properties of a single flow ------------------ *)
\* some row of the table has this username
Taken(name, table) == \E u \in table : u.username = name

\* b when it is free, otherwise b followed by the smallest k >= 1 that is free
SmallestFree(b, table) ==
    IF ~Taken(b, table) THEN b
    ELSE LET k == CHOOSE k \in 1 .. Cardinality(table) + 1 :
                     /\ ~Taken(b \o Str(k), table)
                     /\ \A j \in 1 .. k - 1 : Taken(b \o Str(j), table)
         IN b \o Str(k)

\* the row flow r inserted, and the rows that were there before it
CreatedRow(r) == CHOOSE u \in users : u.id = req[r].uid

Created(r) == Social(r) /\ req[r].via = "create" /\ req[r].committed

\* C15: the row of the create path gets the base name b derived from the
\* identity when no row has it, and otherwise b followed by the smallest
\* integer k >= 1 such that no row has b followed by k.
C15_SmallestFreeSuffix ==
    \A r \in Slots :
        Created(r)
        => CreatedRow(r).username =
              SmallestFree(BaseUsername(req[r].inp.provider, req[r].ident.provider_id,
                                        req[r].ident.email),
                           users \ {CreatedRow(r)})

\* C15 witness: with bob and bob1 taken and bob2 free, the identity whose
\* email is bob@y.com got bob2.
C15_Witness ==
    \E r \in Slots :
        /\ Created(r)
        /\ CreatedRow(r).username = <<"b", "o", "b", "2">>
        /\ Taken(<<"b", "o", "b">>, users)
        /\ Taken(<<"b", "o", "b", "1">>, users)
        /\ req[r].db_ops >= 5

(* ------------------ properties of credentials and accounts ------------ *)
\* C16: the credential of a successful social-login flow has the user's email
\* as subject, and in every later state that subject is the email of a row of
\* the table.
C16_SubjectAlwaysResolves ==
    \A r \in Slots :
        (Social(r) /\ req[r].status = 200)
        => /\ req[r].credential = req[r].user.email
           /\ \E u \in users : u.email = req[r].credential

\* request r is a registration that makes its email check in this step
ChecksEmail(r) == req[r].pc = "idle" /\ req'[r].kind = "register"

\* request r is a registration that makes its username check in this step
ChecksUsername(r) ==
    req[r].kind = "register" /\ req[r].pc = "create_select_username" /\ req'[r] # req[r]

Rejected409(q) ==
    q.pc = "done" /\ q.status = 409 /\ q.error = "ResourceAlreadyExistsError"

\* C17: a registration whose email or username some row of the table has is
\* answered 409 ResourceAlreadyExistsError and leaves the table unchanged,
\* whatever registrations and social logins filled the table.
C17_DuplicateRegistrationRejected ==
    /\ [][\A r \in Slots :
            /\ (ChecksEmail(r) /\ \E u \in users : u.email = req'[r].inp.email)
                 => (Rejected409(req'[r]) /\ users' = users)
            /\ (ChecksUsername(r) /\ \E u \in users : u.username = req[r].inp.username)
                 => (Rejected409(req'[r]) /\ users' = users)
         ]_vars
    /\ [](\A r \in Slots :
            (req[r].kind = "register" /\ req[r].status = 409) => ~req[r].committed)

\* C17 witness: a registration was answered 409 because a row that a social
\* login created has its username, while its email was free.
C17_Witness ==
    \E r \in Slots :
        /\ req[r].kind = "register"
        /\ Rejected409(req[r])
        /\ req[r].db_ops = 2
        /\ \E u \in users : /\ u.username = req[r].inp.username
                             /\ u.email # req[r].inp.email
                             /\ u.google_id # NULL

\* request r starts in this step with a credential that resolves to an active
\* user who is not a superuser, and asks for a listing, a delete, or an update
\* of a row that is not the user's own
RefusedByRole(r) ==
    /\ req[r].pc = "idle"
    /\ req'[r].kind \in {"update", "delete", "list"}
    /\ \E u \in users :
          /\ u.email = req'[r].inp.credential.sub
          /\ u.is_active
          /\ ~u.is_superuser
          /\ (req'[r].kind = "update" => req'[r].inp.user_id # u.id)

\* request r, which takes this step, holds the superuser's credential or
\* updates the row of the user its credential was issued for
MayWrite(r) ==
    /\ req'[r] # req[r]
    /\ req[r].kind \in {"update", "delete"}
    /\ \/ req[r].inp.credential.uid = AdminRow.id
       \/ req[r].kind = "update" /\ req[r].inp.user_id = req[r].inp.credential.uid

\* C18: an update of another user's row, a delete, or a listing requested by a
\* user who is not a superuser is answered 403 and leaves the table unchanged;
\* the table is changed only by the superuser or by a user updating their own
\* row.
C18_NonSuperuserCannotTouchOthers ==
    /\ [][\A r \in Slots :
            RefusedByRole(r)
            => /\ req'[r].pc = "done"
               /\ req'[r].status = 403
               /\ users' = users
         ]_vars
    /\ [][users' # users => \E r \in Slots : MayWrite(r)]_vars
    /\ [](\A r \in Slots : req[r].status = 403 => ~req[r].committed)

\* C18 witness: a user who is not a superuser was answered 403 for an update of
\* another row, for a delete and for a listing.
C18_Witness ==
    /\ \E r \in Slots : req[r].kind = "update" /\ req[r].status = 403
    /\ \E r \in Slots : req[r].kind = "delete" /\ req[r].status = 403
    /\ \E r \in Slots : req[r].kind = "list" /\ req[r].status = 403
    /\ users = AccountRows

\* the rows whose provider id is the one of flow r's identity, and the rows
\* whose email is the identity's
ProviderMatches(r) ==
    SelectWhere(users, ProviderField(req[r].inp.provider), req[r].ident.provider_id)

EmailMatches(r) ==
    IF Truthy(req[r].ident.email) THEN SelectWhere(users, "email", req[r].ident.email)
    ELSE {}

\* flow r takes a step of create_or_update_social_user
LinkStep(r) == Social(r) /\ req[r].pc \in LinkPcs /\ req'[r] # req[r]

\* C19: identity resolution follows strict priority. A row whose provider id
\* is the identity's is the one returned, whatever row holds the identity's
\* email, and no other row is changed; the email is consulted only when no row
\* has the provider id and the identity carries an email; a row is created
\* only when neither match exists.
C19_ResolutionPriority ==
    [][\A r \in Slots :
         LinkStep(r)
         => /\ (req[r].pc = "select_provider_id" /\ ProviderMatches(r) # {})
                 => /\ req'[r].via = "provider_id"
                    /\ req'[r].uid \in {u.id : u \in ProviderMatches(r)}
            /\ (req[r].via = "provider_id")
                 => {u \in users' : u.id # req[r].uid} = {u \in users : u.id # req[r].uid}
            /\ (req'[r].pc = "select_email")
                 => ProviderMatches(r) = {} /\ Truthy(req[r].ident.email)
            /\ (req[r].via # "email" /\ req'[r].via = "email")
                 => /\ ProviderMatches(r) = {}
                    /\ req'[r].uid \in {u.id : u \in EmailMatches(r)}
            /\ (req[r].via # "create" /\ req'[r].via = "create")
                 => /\ ProviderMatches(r) = {}
                    /\ EmailMatches(r) = {}
                    /\ req'[r].uid \notin {u.id : u \in users}
      ]_vars

\* C19 witness: a flow ended with the row that has its provider id while a
\* different row, left as it was, holds the identity's email.
C19_Witness ==
    \E r \in Slots :
        /\ Social(r) /\ req[r].status = 200 /\ req[r].via = "provider_id"
        /\ \E u \in users \cap SeedRows :
              u.email = req[r].ident.email /\ u.id # req[r].uid

\* C20: a flow that ends in failure has committed no write to the users
\* table: the table holds the rows it held when the flow started.
C20_FailedFlowWroteNothing ==
    \A r \in Slots :
        FailedSocial(r)
        => /\ ~req[r].committed
           /\ users \subseteq SeedRows

(* --------------------------- the flow's states ------------------------ *)
\* the state of the specification's flow diagram that a request record is in
FlowState(q) ==
    IF q.pc = "idle" THEN "START"
    ELSE IF q.pc = "verify" THEN "VERIFYING"
    ELSE IF q.pc \in {"select_provider_id", "select_email", "probe_username", "insert",
                      "commit_update"} THEN "LINKING"
    ELSE IF q.pc = "refresh" THEN "LINKED"
    ELSE IF q.status = 200 THEN "ISSUED"
    ELSE IF q.committed THEN "FAILED_AFTER_LINK"
    ELSE IF q.ident.ok THEN "LINK_FAILED"
    ELSE "TOKEN_REJECTED"

\* the edges of the diagram (VERIFIED is passed through within the step that
\* starts the link)
FlowEdges ==
    {<<"START", "VERIFYING">>, <<"VERIFYING", "TOKEN_REJECTED">>,
     <<"VERIFYING", "LINKING">>, <<"LINKING", "LINKING">>, <<"LINKING", "LINKED">>,
     <<"LINKING", "LINK_FAILED">>, <<"LINKED", "ISSUED">>}

\* C21: a social-login flow moves only along the edges of the diagram and,
\* as long as the network and the database answer, eventually is in one of
\* the terminal states TOKEN_REJECTED, LINK_FAILED or ISSUED.
C21_FlowFollowsDiagram ==
    /\ [][\A r \in Slots :
            (Social(r) /\ req'[r] # req[r])
            => <<FlowState(req[r]), FlowState(req'[r])>> \in FlowEdges]_vars
    /\ \A r \in Slots :
          Social(r) ~> FlowState(req[r]) \in {"TOKEN_REJECTED", "LINK_FAILED", "ISSUED"}

\* the probes flow r has made: every turn of the loop that found the name
\* taken raised the counter, and the turn that found it free ended the loop
Probes(r) == IF req[r].pc = "probe_username" THEN req[r].counter - 1 ELSE req[r].counter

\* C22: the username probing of the create path terminates. Against a table
\* of n rows the loop ends after at most n + 1 probes, and the flow has made
\* at most n + 3 database round trips when it reaches its insert.
C22_ProbingTerminates ==
    /\ [](\A r \in Slots :
            (Social(r) /\ req[r].pc \in {"probe_username", "insert"})
            => /\ Probes(r) <= Cardinality(users) + 1
               /\ (req[r].pc = "probe_username" => Probes(r) <= Cardinality(users))
               /\ req[r].db_ops <= Cardinality(users) + 3)
    /\ \A r \in Slots : (req[r].pc = "probe_username") ~> (req[r].pc = "insert")

\* C22 witness: with three rows, which hold bob, bob1 and bob2, the loop
\* ended after four probes.
C22_Witness ==
    \E r \in Slots :
        /\ req[r].pc = "insert"
        /\ Cardinality(users) = 3
        /\ Probes(r) = Cardinality(users) + 1

\* flow r is on the create path with an identity that carries no email
EmailLessCreate(r) ==
    /\ Social(r)
    /\ req[r].ident.ok
    /\ ~Truthy(req[r].ident.email)
    /\ req[r].ident.provider_id # NULL

\* C23: when a flow is about to insert the row of an identity without an
\* email, no row of the table holds the synthesized email
\* provider_user_id@provider.local, and the insert does not end in an
\* IntegrityError.
C23_SynthEmailIsFree ==
    \A r \in Slots :
        EmailLessCreate(r)
        => /\ req[r].pc = "insert"
              => SelectWhere(users, "email",
                             SynthEmail(req[r].inp.provider, req[r].ident.provider_id)) = {}
           /\ req[r].error # "IntegrityError"

(* ------------------------ what a link does to a row ------------------- *)
\* flow r commits the changes of its found path in this step
CommitsFound(r) ==
    /\ Social(r)
    /\ req[r].pc = "commit_update"
    /\ req'[r].committed

\* the row of flow r before and after the step
RowBefore(r) == CHOOSE u \in users : u.id = req[r].uid
RowAfter(r) == CHOOSE u \in users' : u.id = req[r].uid

\* a profile field of the row after the link: kept when it had a value, and
\* otherwise the identity's value when the identity has one
Filled(old, claim) == IF ~Truthy(old) /\ Truthy(claim) THEN claim ELSE old

\* C24: a link that matches an existing row, by provider id or by email,
\* never overwrites a profile picture or full name the row already has and
\* fills the ones that were empty; email_verified becomes true exactly when
\* the identity asserts it, and is never reset to false.
C24_LinkFillsOnlyEmptyFields ==
    [][\A r \in Slots :
         CommitsFound(r)
         => /\ RowAfter(r).full_name = Filled(RowBefore(r).full_name, req[r].ident.full_name)
            /\ RowAfter(r).profile_picture =
                  Filled(RowBefore(r).profile_picture, req[r].ident.profile_picture)
            /\ RowAfter(r).email_verified =
                  (RowBefore(r).email_verified \/ req[r].ident.email_verified)
      ]_vars

\* C24 witness: a link found the row whose name is Gee with an identity named
\* Bob: the row is still named Gee, and its empty picture was filled.
C24_Witness ==
    \E r \in Slots :
        /\ Social(r) /\ req[r].status = 200 /\ req[r].via = "provider_id"
        /\ req[r].ident.full_name = <<"Bob">>
        /\ req[r].user.full_name = <<"Gee">>
        /\ req[r].user.profile_picture = <<"pic">>
        /\ req[r].user.email_verified

(* ---------------------- audience and issuer of a token ---------------- *)
\* the call got Apple's key set, and the token is a well-formed, unexpired
\* token signed with the key of the set that its header names
SignedByApple(r) ==
    /\ AppleReturned(r)
    /\ req[r].inp.jwks.kind # "network_error"
    /\ req[r].inp.jwks.has_keys
    /\ req[r].inp.tok.fmt
    /\ \E k \in req[r].inp.jwks.keys :
          k.kid = req[r].inp.tok.kid /\ k.mat = req[r].inp.tok.sig
    /\ req[r].inp.tok.exp_ok

\* C25: Apple audience validation depends on the configuration. With an
\* Apple client id configured, a token whose audience differs from it yields
\* no identity; with none configured, a token of any audience that passes
\* the signature and issuer checks is accepted.
C25_AppleAudienceConditional ==
    \A r \in Slots :
        AppleReturned(r)
        => /\ (Truthy(appleClientId) /\ req[r].inp.tok.aud # appleClientId)
                 => ~req[r].ident.ok
           /\ (~Truthy(appleClientId) /\ SignedByApple(r)
                  /\ req[r].inp.tok.iss = AppleIssuer)
                 => req[r].ident.ok

\* C25 witness: with no client id configured, a token issued to another
\* client was accepted.
C25_Witness ==
    \E r \in Slots :
        /\ AppleReturned(r)
        /\ ~Truthy(appleClientId)
        /\ req[r].inp.tok.aud = <<"other-client">>
        /\ req[r].ident.ok

\* the issuers a provider's verifier accepts
AcceptedIssuers(provider) ==
    IF provider = "google"
    THEN {<<"accounts.google.com">>, <<"https://accounts.google.com">>}
    ELSE {<<"https://appleid.apple.com">>}

\* C26: a verification yields an identity only if the token's issuer is in
\* the provider's accepted set: accounts.google.com or
\* https://accounts.google.com for Google, https://appleid.apple.com for
\* Apple. A token with another issuer, or with no issuer claim, yields none,
\* however it is signed.
C26_IssuerInAcceptedSet ==
    \A r \in Slots :
        VerifierReturned(r)
        => /\ req[r].ident.ok => req[r].inp.tok.iss \in AcceptedIssuers(req[r].inp.provider)
           /\ req[r].inp.tok.iss \notin AcceptedIssuers(req[r].inp.provider)
                 => req[r].ident = NoIdent

\* C26 witness: a token signed with Apple's key for this client, unexpired,
\* but without an issuer claim, was rejected by the issuer check.
C26_Witness ==
    \E r \in Slots :
        /\ SignedByApple(r)
        /\ req[r].inp.tok.aud = AppleCid
        /\ req[r].inp.tok.iss = NULL
        /\ req[r].raised = "ValueError"
        /\ ~req[r].ident.ok

(* ------------------------ who a link gives access to ------------------ *)
\* C27: the match by email attaches a provider id to an existing account
\* only when the provider asserts the identity's email as verified: an
\* identity whose email_verified is false is never linked to, and never gets
\* a credential for, a row it matches only by email.
C27_LinkByEmailNeedsVerified ==
    \A r \in Slots :
        (Social(r) /\ req[r].via = "email")
        => /\ req[r].committed => req[r].ident.email_verified
           /\ req[r].status = 200 => req[r].ident.email_verified

\* C28: once a row has a non-null google_id or apple_id no step changes it
\* to a different value: an identity of the same provider that matches the
\* row only by email does not replace the provider id the row has.
C28_ProviderIdIsNeverReplaced ==
    [][\A u \in users : \A v \in users' :
         v.id = u.id
         => /\ u.google_id # NULL => v.google_id = u.google_id
            /\ u.apple_id # NULL => v.apple_id = u.apple_id
      ]_vars

\* get_current_user on credential c: the rows its subject resolves to
ResolvedUsers(c) == SelectWhere(users, "email", c.sub)

\* C29: a session credential issued for user U never authenticates a request
\* as another user: whatever emails were updated and whatever accounts were
\* registered or created since, its subject resolves to U or to no user.
C29_CredentialResolvesToItsUser ==
    \A c \in creds : \A u \in ResolvedUsers(c) : u.id = c.uid

\* C30: no login path issues a session credential for an account whose
\* is_active flag is false: a social-login flow that resolves to an inactive
\* row is refused, as password login is, and ends without a credential.
C30_NoCredentialForInactive ==
    \A r \in Slots :
        (Social(r) /\ Done(r) /\ req[r].user # NoRow /\ ~req[r].user.is_active)
        => /\ req[r].status # 200
           /\ req[r].credential = NULL

====
